---- MODULE Spec2Model ----
\* A model of download_form_github.py: the release job (version policy, asset
\* selection, config write-back), the per-asset pipeline of
\* download_and_extract_file (stale-sibling cleanup, lock probe, quarantine
\* rename, download, extraction), extract_file's merge of an archive into
\* the destination directory, the threads of prompt_user_selection and main,
\* and the retry loop of send_http_request.
EXTENDS Integers, Sequences, FiniteSets, TLC

\* ------------------------------------------------------------------ bounds

\* The largest number of assets a release carries.
MaxAssets == 2

\* Number of extract_file calls made in a row on one destination directory.
MaxCalls == 2

\* ----------------------------------------------------------------- strings

\* Strings are TLA+ strings; Chars gives the characters of those the program
\* inspects character by character (isdigit, fnmatch, endswith).
Chars(s) ==
    CASE s = "v1" -> <<"v", "1">>
      [] s = "v2" -> <<"v", "2">>
      [] s = "CI" -> <<"C", "I">>
      [] s = "a.zip" -> <<"a", ".", "z", "i", "p">>
      [] s = "b.7z" -> <<"b", ".", "7", "z">>
      [] s = "app.exe" -> <<"a", "p", "p", ".", "e", "x", "e">>
      [] s = "*.zip" -> <<"*", ".", "z", "i", "p">>
      [] s = "a*" -> <<"a", "*">>
      [] s = "?.7z" -> <<"?", ".", "7", "z">>
      [] s = ".zip" -> <<".", "z", "i", "p">>
      [] s = ".7z" -> <<".", "7", "z">>
      [] s = ".rar" -> <<".", "r", "a", "r">>
      [] OTHER -> <<>>

Digits == {"0", "1", "2", "3", "4", "5", "6", "7", "8", "9"}

\* any(char.isdigit() for char in version)
HasDigit(version) ==
    \E i \in 1..Len(Chars(version)) : Chars(version)[i] \in Digits

\* str.endswith(suffix)
EndsWith(s, suffix) ==
    LET cs == Chars(s)
        cx == Chars(suffix)
    IN  /\ Len(cx) <= Len(cs)
        /\ SubSeq(cs, Len(cs) - Len(cx) + 1, Len(cs)) = cx

\* downloaded_file_path.endswith(('.zip', '.7z', '.rar'))
IsArchiveName(name) ==
    \E suffix \in {".zip", ".7z", ".rar"} : EndsWith(name, suffix)

\* The shell-style match of fnmatch on character sequences: * matches any
\* run of characters, ? exactly one, every other character itself.
RECURSIVE GlobMatch(_, _)
GlobMatch(s, p) ==
    IF p = <<>> THEN s = <<>>
    ELSE IF Head(p) = "*"
         THEN GlobMatch(s, Tail(p)) \/ (s # <<>> /\ GlobMatch(Tail(s), p))
    ELSE IF s = <<>> THEN FALSE
    ELSE IF Head(p) = "?" THEN GlobMatch(Tail(s), Tail(p))
    ELSE Head(p) = Head(s) /\ GlobMatch(Tail(s), Tail(p))

fnmatch(name, pattern) == GlobMatch(Chars(name), Chars(pattern))

\* f"[...]{file_name}": the stale-sibling name of a file name.
OlderVersionName(file_name) ==
    CASE file_name = "a.zip" -> "[old]a.zip"
      [] file_name = "b.7z" -> "[old]b.7z"
      [] file_name = "app.exe" -> "[old]app.exe"
      [] OTHER -> "[old]"

\* -------------------------------------------------------------- filesystem

\* The tree under save_path: a function from the paths that exist (non-empty
\* sequences of names, relative to save_path) to their nodes. save_path itself
\* is the empty path and always a directory.
Dir == [kind |-> "dir", data |-> "-"]
File(d) == [kind |-> "file", data |-> d]

IsPrefix(p, q) == Len(p) <= Len(q) /\ SubSeq(q, 1, Len(p)) = p

Exists(f, p) == p = <<>> \/ p \in DOMAIN f
IsDir(f, p) == p = <<>> \/ (p \in DOMAIN f /\ f[p].kind = "dir")
IsFile(f, p) == p \in DOMAIN f /\ f[p].kind = "file"

\* os.listdir(p)
ListDir(f, p) ==
    {q[Len(p) + 1] : q \in {r \in DOMAIN f : Len(r) = Len(p) + 1 /\ IsPrefix(p, r)}}

Restrict(f, S) == [p \in S |-> f[p]]

\* The tree below p, with paths relative to p.
Subtree(f, p) ==
    LET below == {q \in DOMAIN f : IsPrefix(p, q) /\ q # p}
    IN  [r \in {SubSeq(q, Len(p) + 1, Len(q)) : q \in below} |-> f[p \o r]]

\* shutil.rmtree(p), os.remove(p), os.rmdir(p): p and all below it disappear.
RemoveTree(f, p) == Restrict(f, {q \in DOMAIN f : ~IsPrefix(p, q)})

\* A file or directory node written at p (parents not touched).
Put(f, p, node) == [q \in DOMAIN f \cup {p} |-> IF q = p THEN node ELSE f[q]]

\* os.rename(src, dst) of an existing src onto a path that no longer holds a
\* directory: src and all below it move to dst.
RenameTree(f, src, dst) ==
    LET moved == {q \in DOMAIN f : IsPrefix(src, q)}
        kept == {q \in DOMAIN f : ~IsPrefix(src, q) /\ ~IsPrefix(dst, q)}
        target(q) == dst \o SubSeq(q, Len(src) + 1, Len(q))
        source(r) == src \o SubSeq(r, Len(dst) + 1, Len(r))
    IN  [r \in kept \cup {target(q) : q \in moved} |->
            IF r \in kept THEN f[r] ELSE f[source(r)]]

\* All orders in which os.listdir may return a set of names.
Perms(S) ==
    {s \in [1..Cardinality(S) -> S] : \A i, j \in 1..Cardinality(S) : s[i] = s[j] => i = j}

\* ------------------------------------------------------------ extract_file

\* What the bytes of a file are, as an archive: the members in the order the
\* archive lists them, each a path inside the archive and a node. Bytes that
\* are no archive have no members and cannot be opened.
ArchiveOf(data) ==
    CASE data = "zip_wrapped" ->
            << [path |-> <<"topdir">>, node |-> Dir],
               [path |-> <<"topdir", "a.txt">>, node |-> File("new")],
               [path |-> <<"topdir", "sub">>, node |-> Dir],
               [path |-> <<"topdir", "sub", "b.txt">>, node |-> File("new")] >>
      [] data = "zip_loose" ->
            << [path |-> <<"a.txt">>, node |-> File("new")],
               [path |-> <<"b.txt">>, node |-> File("new")] >>
      [] data = "zip_mixed" ->
            << [path |-> <<"topdir">>, node |-> Dir],
               [path |-> <<"topdir", "a.txt">>, node |-> File("new")],
               [path |-> <<"b.txt">>, node |-> File("new")] >>
      [] data = "zip_sub" ->
            << [path |-> <<"sub">>, node |-> Dir],
               [path |-> <<"sub", "c.txt">>, node |-> File("new")] >>
      [] OTHER -> <<>>

IsArchiveData(data) == data \in {"zip_wrapped", "zip_loose", "zip_mixed", "zip_sub"}

ArchiveData == {"zip_wrapped", "zip_loose", "zip_mixed", "zip_sub"}

\* The archive as the tree it describes.
ArchiveTree(data) ==
    LET a == ArchiveOf(data)
    IN  [p \in {a[i].path : i \in 1..Len(a)} |->
            (CHOOSE m \in {a[i] : i \in 1..Len(a)} : m.path = p).node]

TempExtract == <<"temp_extract">>

\* extractall(temp_extract_path) for members i..k: each member is written
\* below the scratch directory, on top of what is there; a member that meets
\* a node of the other kind raises.
RECURSIVE ExtractAll(_, _, _, _)
ExtractAll(f, archive, i, k) ==
    IF i > k THEN [fs |-> f, ok |-> TRUE]
    ELSE LET m == archive[i]
             target == TempExtract \o m.path
             parent == TempExtract \o SubSeq(m.path, 1, Len(m.path) - 1)
         IN  IF ~IsDir(f, parent) THEN [fs |-> f, ok |-> FALSE]
             ELSE IF m.node.kind = "dir"
                  THEN IF IsFile(f, target) THEN [fs |-> f, ok |-> FALSE]
                       ELSE ExtractAll(Put(f, target, Dir), archive, i + 1, k)
             ELSE IF target \in DOMAIN f /\ f[target].kind = "dir"
                  THEN [fs |-> f, ok |-> FALSE]
                  ELSE ExtractAll(Put(f, target, m.node), archive, i + 1, k)

\* extract_to_temp: the format is chosen by the extension; the archive reader
\* raises when the bytes are no archive, and after k members when member
\* k + 1 is unreadable. "unsupported" is the return of False, "raised" an
\* exception.
extract_to_temp(f, file_name, k) ==
    LET data == IF IsFile(f, <<file_name>>) THEN f[<<file_name>>].data ELSE "-"
        archive == ArchiveOf(data)
        r == ExtractAll(f, archive, 1, k)
    IN  IF ~IsArchiveName(file_name) THEN [fs |-> f, result |-> "unsupported"]
        ELSE IF ~IsArchiveData(data) THEN [fs |-> f, result |-> "raised"]
        ELSE IF r.ok /\ k = Len(archive) THEN [fs |-> r.fs, result |-> "ok"]
        ELSE [fs |-> r.fs, result |-> "raised"]

\* The number of members of the archive stored in file_name.
MemberCount(f, file_name) ==
    IF IsFile(f, <<file_name>>) THEN Len(ArchiveOf(f[<<file_name>>].data)) ELSE 0

\* The directory whose children are moved: the single top-level directory of
\* the scratch directory when there is exactly one and no top-level file.
MergeSourceDir(f) ==
    LET names == ListDir(f, TempExtract)
        top_level_dirs == {n \in names : IsDir(f, TempExtract \o <<n>>)}
        top_level_files == {n \in names : IsFile(f, TempExtract \o <<n>>)}
    IN  IF Cardinality(top_level_dirs) = 1 /\ Cardinality(top_level_files) = 0
        THEN TempExtract \o <<CHOOSE n \in top_level_dirs : TRUE>>
        ELSE TempExtract

\* move_and_handle_conflict(src, dst): an existing dst is deleted first (a
\* locked file cannot be removed), then src is renamed to dst; renameFails is
\* the operating system refusing the rename.
move_and_handle_conflict(f, lk, src, dst, renameFails) ==
    LET removable == ~(IsFile(f, dst) /\ dst \in lk)
        cleared == IF dst \in DOMAIN f THEN RemoveTree(f, dst) ELSE f
    IN  IF ~removable THEN [fs |-> f, ok |-> FALSE]
        ELSE IF renameFails \/ src \notin DOMAIN cleared
             THEN [fs |-> cleared, ok |-> FALSE]
             ELSE [fs |-> RenameTree(cleared, src, dst), ok |-> TRUE]

\* The loop over os.listdir(srcDir), in the order the listing gives; the
\* rename of item failAt is refused (0: none is), and the first exception
\* ends the loop.
RECURSIVE MoveAll(_, _, _, _, _, _)
MoveAll(f, lk, srcDir, order, i, failAt) ==
    IF i > Len(order) THEN [fs |-> f, ok |-> TRUE]
    ELSE LET r == move_and_handle_conflict(f, lk, srcDir \o <<order[i]>>,
                                           <<order[i]>>, i = failAt)
         IN  IF r.ok THEN MoveAll(r.fs, lk, srcDir, order, i + 1, failAt) ELSE r

\* The removal of the scratch directory: os.rmdir of each directory left in
\* it (which must be empty), os.remove of each file, then os.rmdir of it.
RemoveScratch(f) ==
    LET names == ListDir(f, TempExtract)
        nonEmpty == {n \in names : IsDir(f, TempExtract \o <<n>>)
                                   /\ ListDir(f, TempExtract \o <<n>>) # {}}
    IN  IF TempExtract \notin DOMAIN f \/ nonEmpty # {}
        THEN [fs |-> f, ok |-> FALSE]
        ELSE [fs |-> RemoveTree(f, TempExtract), ok |-> TRUE]

\* extract_file(file_path, extract_path) with extract_path = save_path: the
\* tree afterwards and the value returned. k, order and failAt are what the
\* environment decides: how many members the reader extracts, the order of
\* the listing, and which rename is refused.
extract_file(f, lk, file_name, k, order, failAt) ==
    LET made == IF TempExtract \in DOMAIN f THEN f ELSE Put(f, TempExtract, Dir)
        ext == extract_to_temp(made, file_name, k)
        mov == MoveAll(ext.fs, lk, MergeSourceDir(ext.fs), order, 1, failAt)
        rem == RemoveScratch(mov.fs)
    IN  IF IsFile(f, TempExtract) THEN [fs |-> f, ok |-> FALSE]
        ELSE IF ext.result # "ok" THEN [fs |-> ext.fs, ok |-> FALSE]
        ELSE IF ~mov.ok THEN [fs |-> mov.fs, ok |-> FALSE]
        ELSE rem

\* The listings os.listdir may give for the merge source of this call.
MergeOrders(f, file_name, k) ==
    LET made == IF TempExtract \in DOMAIN f THEN f ELSE Put(f, TempExtract, Dir)
        ext == extract_to_temp(made, file_name, k)
    IN  IF IsFile(f, TempExtract) \/ ext.result # "ok" THEN {<<>>}
        ELSE Perms(ListDir(ext.fs, MergeSourceDir(ext.fs)))

\* ------------------------------------------------------------- the config

PyTrue == "True"
PyFalse == "False"

\* Python's truth value of an `enabled` field: only False, None and the empty
\* string are false; the strings "true" and "false" are both true.
Truthy(v) == v \notin {PyFalse, "None", ""}

\* `files`: None, or a list of patterns.
NoFiles == [none |-> TRUE, patterns |-> <<>>]
Patterns(ps) == [none |-> FALSE, patterns |-> ps]

FilesChoices ==
    {NoFiles, Patterns(<<>>), Patterns(<<"*.zip">>), Patterns(<<"a*", "*.zip">>),
     Patterns(<<"?.7z">>)}

\* The versions a release record starts with: a tag and a sentinel without
\* a digit.
Versions == {"v1", "CI"}

ReleaseRecords ==
    [owner : {"o"}, repository : {"r"}, save_path : {"save"}, version : Versions,
     stable_version : BOOLEAN, extract_flag : BOOLEAN,
     files : FilesChoices, enabled : {PyTrue, PyFalse}]

\* What project.get(key) gives for a key the record does not have.
PyNone == "None"

\* A record written without its save_path.
WithoutSavePath(r) == [r EXCEPT !.save_path = PyNone]

\* A record that asks for the 7z asset only and does not extract it.
PlainRecord ==
    [owner |-> "o", repository |-> "r", save_path |-> "save", version |-> "v1",
     stable_version |-> FALSE, extract_flag |-> FALSE,
     files |-> Patterns(<<"?.7z">>), enabled |-> PyTrue]

\* The release lists with more than one record, or with a malformed one.
ReleaseLists ==
    {<<WithoutSavePath(PlainRecord)>>,
     <<WithoutSavePath(PlainRecord), PlainRecord>>,
     <<PlainRecord, [PlainRecord EXCEPT !.stable_version = TRUE]>>,
     <<PlainRecord, WithoutSavePath(PlainRecord)>>,
     <<[PlainRecord EXCEPT !.version = "CI"],
       [PlainRecord EXCEPT !.version = "CI", !.stable_version = TRUE]>>}

\* The document of config.json; {} is the document without any key.
EmptyDoc == [github_token |-> "None", release |-> <<>>, file |-> <<>>]

ConfigDocs ==
    {[github_token |-> "tok", release |-> <<r>>, file |-> <<>>] : r \in ReleaseRecords}
    \cup {[github_token |-> "tok", release |-> l, file |-> <<>>] : l \in ReleaseLists}

\* ------------------------------------------------------------- the remote

AssetNames == {"a.zip", "b.7z", "app.exe"}

Asset(name) == [name |-> name, browser_download_url |-> name]

\* The asset lists a release may carry: up to MaxAssets assets of different
\* names, in any order.
AssetLists ==
    UNION {{[i \in 1..n |-> Asset(names[i])] :
               names \in {s \in [1..n -> AssetNames] :
                             \A i, j \in 1..n : s[i] = s[j] => i = j}} :
           n \in 0..MaxAssets}

Tags == {"v1", "v2"}

Releases == [tag_name : Tags, assets : AssetLists]

\* What send_http_request returns: None, or a response whose JSON body is a
\* list of releases (for releases/latest, the list of that one release).
NoResponse == [ok |-> FALSE, body |-> <<>>]
Response(body) == [ok |-> TRUE, body |-> body]

LatestResponses == {NoResponse} \cup {Response(<<r>>) : r \in Releases}

\* The full list: newest first; the older entries are never read.
OlderRelease == [tag_name |-> "v1", assets |-> <<Asset("app.exe")>>]

ListResponses ==
    {NoResponse, Response(<<>>)} \cup {Response(<<r, OlderRelease>>) : r \in Releases}

\* The bytes a download of an asset may deliver.
Contents(name) ==
    CASE name = "a.zip" -> {"zip_wrapped", "junk"}
      [] name = "b.7z" -> {"zip_loose"}
      [] OTHER -> {"exe_new"}

\* ------------------------------------------------------------ handle_assets

\* The inner loop without its break: one call for every pattern that matches.
RECURSIVE PatternLoop_NoBreak(_, _, _)
PatternLoop_NoBreak(asset, patterns, i) ==
    IF i > Len(patterns) THEN <<>>
    ELSE (IF fnmatch(asset.name, patterns[i]) THEN <<asset>> ELSE <<>>)
             \o PatternLoop_NoBreak(asset, patterns, i + 1)

\* The inner loop of handle_assets over the patterns, from pattern i on: the
\* download calls it makes for one asset (the loop breaks at the first match).
RECURSIVE PatternLoop(_, _, _)
PatternLoop(asset, patterns, i) ==
    IF i > Len(patterns) THEN <<>>
    ELSE IF fnmatch(asset.name, patterns[i]) THEN <<asset>>
    ELSE PatternLoop(asset, patterns, i + 1)

\* handle_assets(assets): the download_and_extract_file calls, in order.
RECURSIVE handle_assets(_, _)
handle_assets(assets, files) ==
    IF assets = <<>> THEN <<>>
    ELSE IF ~files.none /\ files.patterns # <<>>
         THEN PatternLoop(Head(assets), files.patterns, 1)
                  \o handle_assets(Tail(assets), files)
         ELSE <<Head(assets)>> \o handle_assets(Tail(assets), files)

\* ---------------------------------------------------------------- the state

VARIABLES
    configFile,  \* the document stored in config.json
    config,      \* main's copy of it, read once at the start
    pc,          \* where the program is
    proj,        \* process_projects: index of the release project at hand
    job,         \* download_releases_from_github: the locals of the job at hand
    cur,         \* download_and_extract_file: the locals of the call at hand
    fs,          \* the tree under save_path
    locked,      \* the paths another process holds open (open(..., 'a') fails)
    log,         \* the calls the job at hand has made, in order
    ext,         \* the last call of extract_file: its inputs and its outcome
    calls,       \* the number of extract_file calls made on their own
    th,          \* prompt_user_selection: the threads, their shared locals and what they did
    req          \* send_http_request: the locals of a call and what it has done

vars == <<configFile, config, pc, proj, job, cur, fs, locked, log, ext, calls, th, req>>

NoRelease == [tag_name |-> "-", assets |-> <<>>]

\* The locals of a job, and what it has done: the arguments version,
\* stable_version and files, the response to its first request, the release
\* it works on, the calls handle_assets makes (all, and those still to come),
\* whether an asset failed, whether the version was written, and the
\* document as it was when the job began.
IdleJob ==
    [mode |-> "none", decision |-> "none", version |-> "-",
     stable_version |-> FALSE, files |-> [none |-> TRUE, patterns |-> <<>>],
     resp |-> [ok |-> FALSE, body |-> <<>>], release |-> NoRelease,
     selected |-> <<>>, queue |-> <<>>, failed |-> FALSE, written |-> FALSE,
     before |-> EmptyDoc]

\* The locals of a download_and_extract_file call, and what it has done:
\* whether the target was a file, was held open, was probed as locked, whether
\* the rename was tried and whether it failed, the bytes the target held,
\* whether the request was sent, the target opened for writing, the download
\* completed (and its bytes), and whether extract_file was called.
IdleCur ==
    [name |-> "-", hadTarget |-> FALSE, heldOpen |-> FALSE, wasLocked |-> FALSE,
     renamed |-> FALSE, renameFailed |-> FALSE, prior |-> "-",
     requested |-> FALSE, opened |-> FALSE, downloaded |-> FALSE, data |-> "-",
     extracted |-> "no"]

NoExt ==
    [called |-> FALSE, file_name |-> "-", before |-> <<>>, after |-> <<>>,
     ok |-> FALSE]

Event(op, arg) == [op |-> op, arg |-> arg]

\* A call of send_http_request at its start: the loop variable attempt, the
\* value returned ("-" while it runs), the outcome of every requests.get so
\* far and the seconds of every time.sleep so far.
IdleRequest == [attempt |-> 0, result |-> "-", outcomes |-> <<>>, waits |-> <<>>]

\* The threads of main before prompt_user_selection has started any: where
\* the main thread, the input thread and the timer thread are, the locals
\* user_choice and default_action_executed, whether timer.cancel() was
\* called, and of each thread that runs process_projects the index of the
\* record at hand and whether it is inside a job. runs counts the calls of
\* process_projects, acted the actions main dispatched after the prompt,
\* overlap whether a config write was made while a job of another thread was
\* running, late whether the default action started after the input had
\* arrived, toggled the call of toggle_project_status main has made: its
\* project_type, the numbers typed, the document before and after, and
\* whether it was written.
IdleThreads ==
    [main |-> "start", input |-> "idle", timer |-> "idle",
     user_choice |-> "None", default_action_executed |-> FALSE, cancelled |-> FALSE,
     at |-> [t \in {"main", "timer"} |-> 0], inJob |-> {},
     runs |-> 0, acted |-> <<>>, overlap |-> FALSE, late |-> FALSE,
     toggled |-> [project_type |-> "-", selected |-> <<>>, before |-> EmptyDoc,
                  after |-> EmptyDoc, wrote |-> FALSE]]

EmptyTree == <<>>

\* The trees save_path may hold when the program starts: the asset app.exe
\* from an earlier run (possibly in use), its stale sibling from a still
\* earlier one, and a file of the user.
StartTrees ==
    {EmptyTree,
     [p \in {<<"app.exe">>} |-> File("old")],
     [p \in {<<"app.exe">>, <<"[old]app.exe">>} |->
         IF p = <<"app.exe">> THEN File("old") ELSE File("older")],
     [p \in {<<"a.txt">>, <<"a.zip">>} |->
         IF p = <<"a.txt">> THEN File("old") ELSE File("zip_loose")]}

Init ==
    /\ configFile \in ConfigDocs
    /\ config = EmptyDoc
    /\ pc = "main"
    /\ proj = 0
    /\ job = IdleJob
    /\ cur = IdleCur
    /\ fs \in (IF configFile.release \in ReleaseLists THEN {EmptyTree} ELSE StartTrees)
    /\ locked \in SUBSET {p \in DOMAIN fs : p \in {<<"app.exe">>, <<"[old]app.exe">>}}
    /\ log = <<>>
    /\ ext = NoExt
    /\ calls = 0
    /\ th = IdleThreads
    /\ req = IdleRequest

\* ------------------------------------------------ read_or_update_json_file

\* read_or_update_json_file(CONFIG_FILENAME): the document, or None when the
\* file cannot be opened or decoded.
ReadConfig(readOk) == IF readOk THEN configFile ELSE EmptyDoc

\* ---------------------------------------------------------------- main

\* main: config = read_or_update_json_file(CONFIG_FILENAME) or {}, then
\* process_projects(config, ...).
Main ==
    /\ pc = "main"
    /\ \E readOk \in BOOLEAN : config' = ReadConfig(readOk)
    /\ pc' = "project"
    /\ proj' = 1
    /\ UNCHANGED <<req, th, configFile, job, cur, fs, locked, log, ext, calls>>

\* process_projects, the loop over config["release"]: a project that is not
\* enabled is passed over.
SkipDisabled ==
    /\ pc = "project"
    /\ proj <= Len(config.release)
    /\ ~Truthy(config.release[proj].enabled)
    /\ proj' = proj + 1
    /\ UNCHANGED <<req, th, configFile, config, pc, job, cur, fs, locked, log, ext, calls>>

\* os.path.expandvars(project.get("save_path")) raises TypeError for None.
expandvars_raises(save_path) == save_path = PyNone

\* process_projects, an enabled record without save_path: the TypeError of
\* line 158 is raised outside every try and leaves process_projects.
SavePathRaises ==
    /\ pc = "project"
    /\ proj <= Len(config.release)
    /\ Truthy(config.release[proj].enabled)
    /\ expandvars_raises(config.release[proj].save_path)
    /\ pc' = "raised"
    /\ UNCHANGED <<req, th, configFile, config, proj, job, cur, fs, locked, log, ext, calls>>

\* process_projects calls download_releases_from_github for an enabled one.
StartJob ==
    /\ pc = "project"
    /\ proj <= Len(config.release)
    /\ Truthy(config.release[proj].enabled)
    /\ ~expandvars_raises(config.release[proj].save_path)
    /\ pc' = "job"
    /\ job' = [IdleJob EXCEPT !.before = configFile,
                               !.version = config.release[proj].version,
                               !.stable_version = config.release[proj].stable_version,
                               !.files = config.release[proj].files]
    /\ cur' = IdleCur
    /\ log' = <<>>
    /\ ext' = NoExt
    /\ UNCHANGED <<req, th, configFile, config, proj, fs, locked, calls>>

\* The loop is over; the program ends.
FinishProjects ==
    /\ pc = "project"
    /\ proj > Len(config.release)
    /\ pc' = "exit"
    /\ UNCHANGED <<req, th, configFile, config, proj, job, cur, fs, locked, log, ext, calls>>

\* ------------------------------------------ download_releases_from_github

Project == config.release[proj]

\* The job ends (return, or the except clause) and the loop goes on.
EndJob(j) ==
    /\ job' = j
    /\ pc' = "project"
    /\ proj' = proj + 1

\* The branches with the sentinel looked for only under stable_version.
JobMode_StableFirst(version, stable_version) ==
    IF stable_version THEN (IF ~HasDigit(version) THEN "head" ELSE "stable")
    ELSE "unstable"

\* The branch the job takes: without a digit in the version the latest
\* release is fetched without comparison; otherwise stable_version chooses
\* between releases/latest and entry 0 of releases.
JobMode(version, stable_version) ==
    IF ~HasDigit(version) THEN "head"
    ELSE IF stable_version THEN "stable"
    ELSE "unstable"

\* The oldest entry of the list instead of entry 0.
Release0_Last(body) == body[Len(body)]

\* latest_response.json(), and releases[0]: the release the job works on.
Release0(body) == body[1]

\* A comparison of the first characters only.
VersionEquals_Prefix(version, tag_name) == Head(Chars(version)) = Head(Chars(tag_name))

\* version == latest_release, version == release_0_version
VersionEquals(version, tag_name) == version = tag_name

\* handle_assets is entered: the calls it will make are those of the loop.
Fetch(mode, resp) ==
    LET calls_ == handle_assets(Release0(resp.body).assets, Project.files)
    IN  /\ job' = [job EXCEPT !.mode = mode, !.decision = "fetch", !.resp = resp,
                              !.release = Release0(resp.body),
                              !.selected = calls_, !.queue = calls_]
        /\ pc' = "asset"
        /\ proj' = proj

\* The version holds no digit: the latest release is fetched, no comparison.
DecideHead ==
    /\ pc = "job"
    /\ JobMode(Project.version, Project.stable_version) = "head"
    /\ \E resp \in LatestResponses :
          IF ~resp.ok
          THEN EndJob([job EXCEPT !.mode = "head", !.decision = "error", !.resp = resp])
          ELSE Fetch("head", resp)
    /\ log' = Append(log, Event("send_http_request", "releases/latest"))
    /\ UNCHANGED <<req, th, configFile, config, cur, fs, locked, ext, calls>>

\* stable_version: the version is compared with the tag of releases/latest.
DecideStable ==
    /\ pc = "job"
    /\ JobMode(Project.version, Project.stable_version) = "stable"
    /\ \E resp \in LatestResponses :
          IF ~resp.ok
          THEN EndJob([job EXCEPT !.mode = "stable", !.decision = "error", !.resp = resp])
          ELSE IF VersionEquals(Project.version, Release0(resp.body).tag_name)
          THEN EndJob([job EXCEPT !.mode = "stable", !.decision = "skip", !.resp = resp,
                                  !.release = Release0(resp.body)])
          ELSE Fetch("stable", resp)
    /\ log' = Append(log, Event("send_http_request", "releases/latest"))
    /\ UNCHANGED <<req, th, configFile, config, cur, fs, locked, ext, calls>>

\* Not stable_version: the version is compared with the tag of entry 0 of
\* the full list; an empty list ends the job.
DecideUnstable ==
    /\ pc = "job"
    /\ JobMode(Project.version, Project.stable_version) = "unstable"
    /\ \E resp \in ListResponses :
          IF ~resp.ok
          THEN EndJob([job EXCEPT !.mode = "unstable", !.decision = "error", !.resp = resp])
          ELSE IF resp.body = <<>>
          THEN EndJob([job EXCEPT !.mode = "unstable", !.decision = "empty", !.resp = resp])
          ELSE IF VersionEquals(Project.version, Release0(resp.body).tag_name)
          THEN EndJob([job EXCEPT !.mode = "unstable", !.decision = "skip", !.resp = resp,
                                  !.release = Release0(resp.body)])
          ELSE Fetch("unstable", resp)
    /\ log' = Append(log, Event("send_http_request", "releases"))
    /\ UNCHANGED <<req, th, configFile, config, cur, fs, locked, ext, calls>>

\* The document update_version_in_config writes: `data` with the version of
\* every release record of owner/repo set.
update_version_in_config(data, owner, repo, latest_version) ==
    [data EXCEPT !.release =
        [i \in 1..Len(data.release) |->
            IF data.release[i].owner = owner /\ data.release[i].repository = repo
            THEN [data.release[i] EXCEPT !.version = latest_version]
            ELSE data.release[i]]]

\* handle_assets taken to have returned with one call still to be made.
HandleAssetsReturned_Early(queue) == Len(queue) <= 1

\* handle_assets has returned: every call of its loops has been made and
\* has returned.
HandleAssetsReturned(queue) == queue = <<>>

\* The version written in every mode.
WritesVersion_Always(mode) == TRUE

\* What the job does once handle_assets has returned: in the two comparing
\* modes the version is written, in the mode without comparison it is not.
WritesVersion(mode) == mode \in {"stable", "unstable"}

\* After handle_assets: update_version_in_config(owner, repo, tag), which
\* reads the file again (or {} when that fails) and writes it back.
UpdateVersion ==
    /\ pc = "asset"
    /\ HandleAssetsReturned(job.queue)
    /\ WritesVersion(job.mode)
    /\ \E readOk \in BOOLEAN :
          configFile' = update_version_in_config(ReadConfig(readOk), Project.owner,
                                                 Project.repository, job.release.tag_name)
    /\ log' = Append(log, Event("update_version_in_config", job.release.tag_name))
    /\ EndJob([job EXCEPT !.written = TRUE])
    /\ UNCHANGED <<req, th, config, cur, fs, locked, ext, calls>>

\* After handle_assets in the mode without comparison: return.
ReturnHead ==
    /\ pc = "asset"
    /\ HandleAssetsReturned(job.queue)
    /\ ~WritesVersion(job.mode)
    /\ EndJob(job)
    /\ UNCHANGED <<req, th, configFile, config, cur, fs, locked, log, ext, calls>>

\* ---------------------------------------------- download_and_extract_file

Target(name) == <<name>>
Older(name) == <<OlderVersionName(name)>>

\* delete_old_file, called when the stale sibling is a file: os.remove, which
\* fails (and is only logged) when the file is held open.
delete_old_file(f, lk, name) ==
    IF IsFile(f, Older(name)) /\ Older(name) \notin lk
    THEN RemoveTree(f, Older(name))
    ELSE f

\* is_file_locked: the append-mode open fails.
is_file_locked(lk, path) == path \in lk

\* The rename attempted for every existing target, locked or not.
AttemptsRename_Always(f, lk, name) == IsFile(f, Target(name))

\* Whether the code attempts the quarantine rename: the target is a file and
\* the probe reports it locked.
AttemptsRename(f, lk, name) ==
    IsFile(f, Target(name)) /\ is_file_locked(lk, Target(name))

\* rename_file(file_save_path, older_version_file_path): os.rename, whose
\* failure is caught and logged.
rename_file(f, name, renameOk) ==
    IF renameOk THEN RenameTree(f, Target(name), Older(name)) ELSE f

\* Lines 637-645: the stale sibling is deleted, then a locked target is
\* renamed aside. The lock goes with the renamed file.
Prepare ==
    /\ pc = "asset"
    /\ job.queue # <<>>
    /\ LET name == Head(job.queue).name
           f1 == delete_old_file(fs, locked, name)
           attempt == AttemptsRename(f1, locked, name)
       IN  \E renameOk \in BOOLEAN :
              /\ attempt \/ renameOk
              /\ fs' = IF attempt THEN rename_file(f1, name, renameOk) ELSE f1
              /\ locked' = IF attempt /\ renameOk
                           THEN (locked \ {Target(name)}) \cup {Older(name)}
                           ELSE locked
              /\ cur' = [IdleCur EXCEPT
                            !.name = name,
                            !.hadTarget = IsFile(f1, Target(name)),
                            !.heldOpen = Target(name) \in locked,
                            !.wasLocked = attempt,
                            !.renamed = attempt /\ renameOk,
                            !.renameFailed = attempt /\ ~renameOk,
                            !.prior = IF IsFile(f1, Target(name))
                                      THEN f1[Target(name)].data ELSE "-"]
              /\ log' = log \o <<Event("download_and_extract_file", name)>>
                            \o (IF attempt THEN <<Event("rename_file", name)>> ELSE <<>>)
    /\ pc' = "download"
    /\ UNCHANGED <<req, th, configFile, config, proj, job, ext, calls>>

\* download_file: the request is sent; without a response nothing is
\* written. With one, the target is opened for writing (which fails on a
\* file still held open, or on a directory) and the chunks are written; a
\* stream that breaks leaves the chunks written so far.
Download ==
    /\ pc = "download"
    /\ \E outcome \in {"none", "ok", "partial"}, data \in Contents(cur.name) :
          LET target == Target(cur.name)
              opens == outcome # "none"
              writable == ~(target \in locked) /\ ~(target \in DOMAIN fs /\ IsDir(fs, target))
              written == opens /\ writable
          IN  /\ fs' = IF ~written THEN fs
                       ELSE IF outcome = "ok" THEN Put(fs, target, File(data))
                       ELSE Put(fs, target, File("partial"))
              /\ cur' = [cur EXCEPT !.requested = TRUE, !.opened = opens,
                                    !.downloaded = written /\ outcome = "ok",
                                    !.data = IF written /\ outcome = "ok" THEN data ELSE "-"]
              /\ log' = log \o <<Event("send_http_request", cur.name)>>
                            \o (IF opens THEN <<Event("open_wb", cur.name)>> ELSE <<>>)
    /\ pc' = "postprocess"
    /\ UNCHANGED <<req, th, configFile, config, proj, job, locked, ext, calls>>

\* extract_file called for every downloaded archive, whatever extract_flag is.
Extracts_Always(downloaded, extract_flag, name) == downloaded /\ IsArchiveName(name)

\* Whether lines 652-654 call extract_file for the downloaded file.
Extracts(downloaded, extract_flag, name) ==
    downloaded /\ extract_flag /\ IsArchiveName(name)

\* Lines 649-658 when extract_file is not called: the file stays.
KeepFile ==
    /\ pc = "postprocess"
    /\ ~Extracts(cur.downloaded, Project.extract_flag, cur.name)
    /\ job' = [job EXCEPT !.queue = Tail(@),
                          !.failed = @ \/ ~cur.downloaded]
    /\ pc' = "asset"
    /\ UNCHANGED <<req, th, configFile, config, proj, cur, fs, locked, log, ext, calls>>

\* os.remove(downloaded_file_path) after a successful extraction; it raises
\* when the file is gone or held open.
RemoveArchive(f, lk, name) ==
    IF Target(name) \in DOMAIN f /\ Target(name) \notin lk
    THEN RemoveTree(f, Target(name))
    ELSE f

\* Lines 649-658 when extract_file is called: the archive is removed when it
\* returns True.
ExtractDownloaded ==
    /\ pc = "postprocess"
    /\ Extracts(cur.downloaded, Project.extract_flag, cur.name)
    /\ \E k \in 0..MemberCount(fs, cur.name) :
          \E order \in MergeOrders(fs, cur.name, k) :
             \E failAt \in 0..Len(order) :
                LET r == extract_file(fs, locked, cur.name, k, order, failAt)
                IN  /\ fs' = IF r.ok THEN RemoveArchive(r.fs, locked, cur.name) ELSE r.fs
                    /\ ext' = [called |-> TRUE, file_name |-> cur.name, before |-> fs,
                               after |-> r.fs, ok |-> r.ok]
                    /\ job' = [job EXCEPT !.queue = Tail(@), !.failed = @ \/ ~r.ok]
                    /\ cur' = [cur EXCEPT !.extracted = IF r.ok THEN "ok" ELSE "failed"]
    /\ log' = Append(log, Event("extract_file", cur.name))
    /\ pc' = "asset"
    /\ UNCHANGED <<req, th, configFile, config, proj, locked, calls>>

Next ==
    \/ Main
    \/ SkipDisabled
    \/ StartJob
    \/ SavePathRaises
    \/ FinishProjects
    \/ DecideHead
    \/ DecideStable
    \/ DecideUnstable
    \/ Prepare
    \/ Download
    \/ KeepFile
    \/ ExtractDownloaded
    \/ UpdateVersion
    \/ ReturnHead

Spec == Init /\ [][Next]_vars

\* ------------------------------------------------- extract_file on its own

\* extract_file applied to the destination directories and archives below,
\* up to MaxCalls times in a row on the same directory.

Overlay(f, g) == [p \in DOMAIN f \cup DOMAIN g |-> IF p \in DOMAIN g THEN g[p] ELSE f[p]]

\* A file of the user that no archive names.
KeepTree == [p \in {<<"keep.txt">>} |-> File("old")]

\* What the destination may hold besides: nothing; a file or a directory
\* named like an archive entry; a directory named like the wrapping
\* directory; a scratch directory or a file of that name.
PreExisting ==
    {EmptyTree,
     [p \in {<<"a.txt">>} |-> File("old")],
     [p \in {<<"sub">>, <<"sub", "old.txt">>} |->
         IF p = <<"sub">> THEN Dir ELSE File("old")],
     [p \in {<<"topdir">>, <<"topdir", "x.txt">>} |->
         IF p = <<"topdir">> THEN Dir ELSE File("old")],
     [p \in {<<"a.txt">>, <<"a.txt", "x.txt">>} |->
         IF p = <<"a.txt">> THEN Dir ELSE File("old")],
     [p \in {<<"temp_extract">>, <<"temp_extract", "left.txt">>} |->
         IF p = <<"temp_extract">> THEN Dir ELSE File("old")],
     [p \in {<<"temp_extract">>} |-> File("old")]}

\* The downloaded files extract_file is called on.
ArchiveFiles ==
    {[p \in {<<"a.zip">>, <<"b.7z">>, <<"app.exe">>} |->
         IF p = <<"a.zip">> THEN File(d1)
         ELSE IF p = <<"b.7z">> THEN File(d2) ELSE File("exe_new")] :
     d1 \in ArchiveData \cup {"junk"}, d2 \in {"zip_loose", "zip_sub"}}

ExtractTrees ==
    {Overlay(Overlay(KeepTree, pre), arch) : pre \in PreExisting, arch \in ArchiveFiles}

InitExtract ==
    /\ configFile = EmptyDoc
    /\ config = EmptyDoc
    /\ pc = "extract_file"
    /\ proj = 0
    /\ job = IdleJob
    /\ cur = IdleCur
    /\ fs \in ExtractTrees
    /\ locked \in SUBSET {p \in {<<"a.txt">>} : IsFile(fs, p)}
    /\ log = <<>>
    /\ ext = NoExt
    /\ calls = 0
    /\ th = IdleThreads
    /\ req = IdleRequest

\* One call extract_file(file_path, save_path) on a file of save_path.
ExtractCall ==
    /\ pc = "extract_file"
    /\ calls < MaxCalls
    /\ \E file_name \in {"a.zip", "b.7z", "app.exe"} :
          /\ IsFile(fs, <<file_name>>)
          /\ \E k \in 0..MemberCount(fs, file_name) :
                \E order \in MergeOrders(fs, file_name, k) :
                   \E failAt \in 0..Len(order) :
                      LET r == extract_file(fs, locked, file_name, k, order, failAt)
                      IN  /\ fs' = r.fs
                          /\ ext' = [called |-> TRUE, file_name |-> file_name,
                                     before |-> fs, after |-> r.fs, ok |-> r.ok]
    /\ calls' = calls + 1
    /\ UNCHANGED <<req, th, configFile, config, pc, proj, job, cur, locked, log>>

NextExtract == ExtractCall

SpecExtract == InitExtract /\ [][NextExtract]_vars

\* ------------------------------------------ main and prompt_user_selection

\* main with its three threads: the main thread, the thread that waits for
\* the input, and the timer. A run of process_projects is followed record by
\* record; of a job only its beginning, its config write and its end count.

\* The documents with two release records, each enabled or not, with the
\* flag as a boolean or as the string toggle_project_status writes.
PromptDocs ==
    {[github_token |-> "tok",
      release |-> <<[PlainRecord EXCEPT !.enabled = e1],
                    [PlainRecord EXCEPT !.enabled = e2, !.stable_version = TRUE]>>,
      file |-> <<>>] : e1, e2 \in {PyTrue, PyFalse, "true", "false"}}

\* What the user may type at the prompt.
Choices == {"1", "2", "3", "x"}

\* The numbers the user may type in toggle_project_status.
SelectedChoices == {<<>>, <<1>>, <<2>>, <<1, 2>>, <<1, 1>>, <<3>>}

\* Lines 702-703: the new status is the string "false" for the string
\* "true", and the string "true" for anything else.
toggle_enabled(project) ==
    [project EXCEPT !.enabled = IF @ = "true" THEN "false" ELSE "true"]

\* The loop of lines 700-706 from the i-th selected number on.
RECURSIVE ToggleLoop(_, _, _)
ToggleLoop(projects, selected, i) ==
    IF i > Len(selected) THEN projects
    ELSE ToggleLoop([projects EXCEPT ![selected[i]] = toggle_enabled(@)], selected, i + 1)

\* toggle_project_status(config, project_type) for the numbers typed: with
\* a number out of range nothing is changed or written; otherwise the
\* projects are toggled in place and the document is written.
toggle_project_status(cfg, project_type, selected) ==
    LET projects == cfg[project_type]
        invalid == \E i \in 1..Len(selected) :
                      selected[i] < 1 \/ selected[i] > Len(projects)
    IN  IF invalid THEN [config |-> cfg, writes |-> FALSE]
        ELSE [config |-> [cfg EXCEPT ![project_type] = ToggleLoop(projects, selected, 1)],
              writes |-> TRUE]

InitPrompt ==
    /\ configFile \in PromptDocs
    /\ config = EmptyDoc
    /\ pc = "prompt"
    /\ proj = 0
    /\ job = IdleJob
    /\ cur = IdleCur
    /\ fs = EmptyTree
    /\ locked = {}
    /\ log = <<>>
    /\ ext = NoExt
    /\ calls = 0
    /\ th = IdleThreads
    /\ req = IdleRequest

\* main reads the config; prompt_user_selection starts the input thread and
\* the timer and joins the input thread.
PromptStart ==
    /\ pc = "prompt"
    /\ th.main = "start"
    /\ \E readOk \in BOOLEAN : config' = ReadConfig(readOk)
    /\ th' = [th EXCEPT !.main = "join", !.input = "waiting", !.timer = "waiting"]
    /\ UNCHANGED <<req, configFile, pc, proj, job, cur, fs, locked, log, ext, calls>>

\* get_user_input: input() returns what was typed.
InputArrives ==
    /\ pc = "prompt"
    /\ th.input = "waiting"
    /\ \E c \in Choices : th' = [th EXCEPT !.user_choice = c, !.input = "got"]
    /\ UNCHANGED <<req, configFile, config, pc, proj, job, cur, fs, locked, log, ext, calls>>

\* get_user_input: input() raises (end of input); the thread ends without
\* setting user_choice or cancelling the timer.
InputFails ==
    /\ pc = "prompt"
    /\ th.input = "waiting"
    /\ th' = [th EXCEPT !.input = "done"]
    /\ UNCHANGED <<req, configFile, config, pc, proj, job, cur, fs, locked, log, ext, calls>>

\* get_user_input: timer.cancel(), which has no effect on a timer that has
\* fired.
CancelTimer ==
    /\ pc = "prompt"
    /\ th.input = "got"
    /\ th' = [th EXCEPT !.cancelled = TRUE, !.input = "done"]
    /\ UNCHANGED <<req, configFile, config, pc, proj, job, cur, fs, locked, log, ext, calls>>

\* The timer fires, not cancelled: execute_default_action sets its flag and
\* calls process_projects in the timer thread.
TimerFires ==
    /\ pc = "prompt"
    /\ th.timer = "waiting"
    /\ ~th.cancelled
    /\ ~th.default_action_executed
    /\ th' = [th EXCEPT !.timer = "sync", !.default_action_executed = TRUE,
                        !.at["timer"] = 1, !.runs = @ + 1,
                        !.late = th.user_choice # "None"]
    /\ UNCHANGED <<req, configFile, config, pc, proj, job, cur, fs, locked, log, ext, calls>>

\* The timer was cancelled while it waited: it ends without calling.
TimerCancelled ==
    /\ pc = "prompt"
    /\ th.timer = "waiting"
    /\ th.cancelled
    /\ th' = [th EXCEPT !.timer = "cancelled"]
    /\ UNCHANGED <<req, configFile, config, pc, proj, job, cur, fs, locked, log, ext, calls>>

\* input_thread.join() returns; main acts on user_choice.
MainDispatch ==
    /\ pc = "prompt"
    /\ th.main = "join"
    /\ th.input = "done"
    /\ th' = CASE th.user_choice = "1" ->
                    [th EXCEPT !.main = "sync", !.at["main"] = 1, !.runs = @ + 1,
                               !.acted = Append(@, "process_projects")]
               [] th.user_choice = "2" -> [th EXCEPT !.main = "toggle_release"]
               [] th.user_choice = "3" -> [th EXCEPT !.main = "toggle_file"]
               [] OTHER -> [th EXCEPT !.main = "done"]
    /\ UNCHANGED <<req, configFile, config, pc, proj, job, cur, fs, locked, log, ext, calls>>

\* toggle_project_status in the main thread, for the numbers typed.
MainToggle ==
    /\ pc = "prompt"
    /\ th.main \in {"toggle_release", "toggle_file"}
    /\ \E selected \in SelectedChoices :
          LET r == toggle_project_status(
                       config, IF th.main = "toggle_release" THEN "release" ELSE "file",
                       selected)
          IN  /\ config' = r.config
              /\ configFile' = IF r.writes THEN r.config ELSE configFile
              /\ th' = [th EXCEPT !.main = "done",
                                  !.acted = Append(@, "toggle_project_status"),
                                  !.toggled =
                                      [project_type |-> IF th.main = "toggle_release"
                                                        THEN "release" ELSE "file",
                                       selected |-> selected, before |-> config,
                                       after |-> r.config, wrote |-> r.writes],
                                  !.overlap = @ \/ (r.writes /\ th.inJob # {})]
    /\ UNCHANGED <<req, pc, proj, job, cur, fs, locked, log, ext, calls>>

\* process_projects in thread t comes to its next record: a job begins for
\* an enabled one, a disabled one is passed over.
SyncStep(t) ==
    /\ pc = "prompt"
    /\ th[t] = "sync"
    /\ t \notin th.inJob
    /\ th.at[t] <= Len(config.release)
    /\ th' = IF Truthy(config.release[th.at[t]].enabled)
             THEN [th EXCEPT !.inJob = @ \cup {t}]
             ELSE [th EXCEPT !.at[t] = @ + 1]
    /\ UNCHANGED <<req, configFile, config, pc, proj, job, cur, fs, locked, log, ext, calls>>

\* The job of thread t ends, having written the version "v2" or not.
JobReturns(t) ==
    /\ pc = "prompt"
    /\ t \in th.inJob
    /\ \E bump, readOk \in BOOLEAN :
          /\ ~bump => readOk
          /\ configFile' =
                IF bump
                THEN update_version_in_config(
                         ReadConfig(readOk), config.release[th.at[t]].owner,
                         config.release[th.at[t]].repository, "v2")
                ELSE configFile
          /\ th' = [th EXCEPT !.inJob = @ \ {t}, !.at[t] = @ + 1,
                              !.overlap = @ \/ (bump /\ th.inJob \ {t} # {})]
    /\ UNCHANGED <<req, config, pc, proj, job, cur, fs, locked, log, ext, calls>>

\* process_projects returns in thread t.
SyncDone(t) ==
    /\ pc = "prompt"
    /\ th[t] = "sync"
    /\ t \notin th.inJob
    /\ th.at[t] > Len(config.release)
    /\ th' = [th EXCEPT ![t] = "done"]
    /\ UNCHANGED <<req, configFile, config, pc, proj, job, cur, fs, locked, log, ext, calls>>

NextPrompt ==
    \/ PromptStart
    \/ InputArrives
    \/ InputFails
    \/ CancelTimer
    \/ TimerFires
    \/ TimerCancelled
    \/ MainDispatch
    \/ MainToggle
    \/ \E t \in {"main", "timer"} : SyncStep(t) \/ JobReturns(t) \/ SyncDone(t)

SpecPrompt == InitPrompt /\ [][NextPrompt]_vars

\* Every thread that can take a step takes it in the end; the user alone
\* may never type anything, at the prompt or in toggle_project_status.
SpecPromptFair ==
    /\ SpecPrompt
    /\ WF_vars(PromptStart)
    /\ WF_vars(CancelTimer)
    /\ WF_vars(TimerFires)
    /\ WF_vars(TimerCancelled)
    /\ WF_vars(MainDispatch)
    /\ \A t \in {"main", "timer"} :
          WF_vars(SyncStep(t) \/ JobReturns(t) \/ SyncDone(t))

\* ------------------------------------------------------ send_http_request

retries == 3
backoff_factor == 1

\* What one requests.get followed by raise_for_status may come to: a
\* response, or one of the exceptions the loop catches.
Outcomes ==
    {"ok", "http_4xx", "http_5xx", "connection_error", "timeout", "request_exception"}

RECURSIVE Pow2(_)
Pow2(n) == IF n = 0 THEN 1 ELSE 2 * Pow2(n - 1)

\* A wait that grows by one second per attempt.
wait_time_Linear(attempt) == backoff_factor * (attempt + 1)

\* wait_time = int(backoff_factor * (2 ** attempt))
wait_time(attempt) == backoff_factor * Pow2(attempt)

InitHttp ==
    /\ configFile = EmptyDoc
    /\ config = EmptyDoc
    /\ pc = "http_try"
    /\ proj = 0
    /\ job = IdleJob
    /\ cur = IdleCur
    /\ fs = EmptyTree
    /\ locked = {}
    /\ log = <<>>
    /\ ext = NoExt
    /\ calls = 0
    /\ th = IdleThreads
    /\ req = IdleRequest

\* One pass of the try: requests.get and raise_for_status. A response is
\* returned at once; every exception is caught and logged.
HttpAttempt ==
    /\ pc = "http_try"
    /\ \E outcome \in Outcomes :
          /\ req' = [req EXCEPT !.outcomes = Append(@, outcome),
                                !.result = IF outcome = "ok" THEN "response" ELSE @]
          /\ pc' = IF outcome = "ok" THEN "http_returned" ELSE "http_sleep"
    /\ UNCHANGED <<configFile, config, proj, job, cur, fs, locked, log, ext, calls, th>>

\* After a caught exception: time.sleep(wait_time), then the next pass of
\* the loop, or return None when the range is used up.
HttpSleep ==
    /\ pc = "http_sleep"
    /\ req' = [req EXCEPT !.waits = Append(@, wait_time(req.attempt)),
                          !.attempt = @ + 1,
                          !.result = IF req.attempt + 1 < retries THEN @ ELSE "None"]
    /\ pc' = IF req.attempt + 1 < retries THEN "http_try" ELSE "http_returned"
    /\ UNCHANGED <<configFile, config, proj, job, cur, fs, locked, log, ext, calls, th>>

NextHttp == HttpAttempt \/ HttpSleep

SpecHttp == InitHttp /\ [][NextHttp]_vars

\* Every requests.get comes back and every sleep ends.
SpecHttpFair == SpecHttp /\ WF_vars(NextHttp)

\* ============================================================== properties

\* The names of the assets download_and_extract_file was called for by the
\* job at hand, in the order of the calls.
RECURSIVE CallNames(_, _)
CallNames(l, op) ==
    IF l = <<>> THEN <<>>
    ELSE (IF Head(l).op = op THEN <<Head(l).arg>> ELSE <<>>) \o CallNames(Tail(l), op)

DownloadCalls == CallNames(log, "download_and_extract_file")

\* The job at hand has ended: process_projects is back in its loop.
JobOver == pc \in {"project", "exit", "raised"} /\ job.mode # "none"

\* The records of the persisted document that the job at hand is about.
Persisted == {i \in 1..Len(configFile.release) :
                 /\ configFile.release[i].owner = "o"
                 /\ configFile.release[i].repository = "r"}

\* C1: the version persisted for a release project is only ever a tag whose
\* job was fully processed: a job writes the tag only if every selected asset
\* was downloaded and, where extraction applies, extracted. A job in which a
\* download or an extraction failed leaves the persisted version as it was.
C1_VersionOnlyAfterFullSuccess ==
    \A i \in Persisted :
        (/\ job.mode # "none"
         /\ i <= Len(job.before.release)
         /\ configFile.release[i].version # job.before.release[i].version)
        => ~job.failed

\* What the asset selection is to be: the assets, in their order, that match
\* at least one pattern; all of them when there are no patterns.
Selected(asset, files) ==
    \/ files.none
    \/ files.patterns = <<>>
    \/ \E i \in 1..Len(files.patterns) : fnmatch(asset.name, files.patterns[i])

RECURSIVE ExpectedSelection(_, _)
ExpectedSelection(assets, files) ==
    IF assets = <<>> THEN <<>>
    ELSE (IF Selected(Head(assets), files) THEN <<Head(assets).name>> ELSE <<>>)
             \o ExpectedSelection(Tail(assets), files)

\* The job at hand has got its answer from GitHub and taken its branch.
Decided == job.decision # "none" /\ job.resp.ok

\* C2: with a digit in the local version and stable_version true, the job
\* asks for releases/latest and skips exactly when the local version equals
\* that release's tag_name; a skipping job issues no download and leaves the
\* persisted document as it was; any other job fetches the assets of that
\* release.
C2_StableSkipIffLatestTag ==
    (Decided /\ HasDigit(job.version) /\ job.stable_version) =>
        /\ log[1] = Event("send_http_request", "releases/latest")
        /\ job.decision \in {"skip", "fetch"}
        /\ (job.decision = "skip") <=> (job.version = job.resp.body[1].tag_name)
        /\ job.decision = "skip" =>
              /\ JobOver
              /\ Len(log) = 1
              /\ configFile = job.before
        /\ job.decision = "fetch" =>
              /\ job.release = job.resp.body[1]
              /\ JobOver => DownloadCalls =
                               ExpectedSelection(job.resp.body[1].assets, job.files)

C2_Witness ==
    /\ Decided /\ HasDigit(job.version) /\ job.stable_version
    /\ job.decision = "skip"
    /\ job.resp.body[1].assets # <<>>
    /\ pc = "exit"

\* C3: with no digit in the local version the job asks for releases/latest
\* and fetches the assets of that release, without comparison and never
\* skipping, whatever stable_version is.
C3_NoDigitAlwaysFetches ==
    (Decided /\ ~HasDigit(job.version)) =>
        /\ log[1] = Event("send_http_request", "releases/latest")
        /\ job.decision = "fetch"
        /\ job.release = job.resp.body[1]
        /\ JobOver => DownloadCalls =
                         ExpectedSelection(job.resp.body[1].assets, job.files)

C3_Witness ==
    /\ Decided /\ ~HasDigit(job.version) /\ ~job.stable_version
    /\ JobOver
    /\ Len(DownloadCalls) = 2

\* C4: with a digit in the local version and stable_version false, the job
\* asks for the full list and works on its entry 0: it skips exactly when
\* the local version equals that entry's tag_name, and otherwise downloads
\* that entry's assets and writes that entry's tag_name as the version.
C4_UnstableUsesEntry0 ==
    (Decided /\ HasDigit(job.version) /\ ~job.stable_version /\ job.resp.body # <<>>) =>
        /\ log[1] = Event("send_http_request", "releases")
        /\ job.decision \in {"skip", "fetch"}
        /\ (job.decision = "skip") <=> (job.version = job.resp.body[1].tag_name)
        /\ job.decision = "skip" =>
              /\ JobOver
              /\ Len(log) = 1
              /\ configFile = job.before
        /\ job.decision = "fetch" =>
              /\ job.release = job.resp.body[1]
              /\ JobOver =>
                    /\ DownloadCalls =
                          ExpectedSelection(job.resp.body[1].assets, job.files)
                    /\ log[Len(log)] = Event("update_version_in_config",
                                             job.resp.body[1].tag_name)
                    /\ \A i \in Persisted :
                          configFile.release[i].version = job.resp.body[1].tag_name

C4_Witness ==
    /\ Decided /\ HasDigit(job.version) /\ ~job.stable_version
    /\ JobOver
    /\ job.decision = "fetch"
    /\ job.resp.body[1].tag_name # job.resp.body[2].tag_name
    /\ DownloadCalls # <<>>
    /\ Persisted # {}

\* C5: handle_assets calls download_and_extract_file for every asset when
\* there are no patterns (None or an empty list), and otherwise for exactly
\* the assets whose name matches at least one pattern; the calls are made in
\* the order of the asset list, and at most one per asset.
C5_AssetSelection ==
    job.decision = "fetch" =>
        LET expected == ExpectedSelection(job.release.assets, job.files)
            made == DownloadCalls
        IN  /\ Len(made) <= Len(expected)
            /\ made = SubSeq(expected, 1, Len(made))
            /\ \A i, j \in 1..Len(made) : made[i] = made[j] => i = j
            /\ JobOver => made = expected

C5_Witness ==
    /\ job.decision = "fetch"
    /\ JobOver
    /\ job.files = Patterns(<<"a*", "*.zip">>)
    /\ Len(job.release.assets) = 2
    /\ DownloadCalls = <<"a.zip">>

\* The call at hand has done its preparation (lines 637-645).
Prepared == pc = "download"

\* download_and_extract_file has returned for the asset in cur.
Synced == pc \in {"asset", "project", "exit"} /\ cur.name # "-"

\* The target of the call at hand is where and what it was before the call.
TargetUntouched ==
    IF cur.hadTarget
    THEN IsFile(fs, Target(cur.name)) /\ fs[Target(cur.name)].data = cur.prior
    ELSE Target(cur.name) \notin DOMAIN fs

\* The former target is at the stale-sibling path and no longer at its own.
TargetMovedAside ==
    /\ Target(cur.name) \notin DOMAIN fs
    /\ IsFile(fs, Older(cur.name))
    /\ fs[Older(cur.name)].data = cur.prior

\* C6, as claimed: the target is renamed to the stale-sibling name iff it
\* exists and the probe reports it locked; then, after the preparation, the
\* original path is gone and the stale sibling holds the prior bytes, and
\* after the sync the new file is at the target path.
C6_RenamedIffLocked ==
    /\ Prepared =>
          IF cur.hadTarget /\ cur.heldOpen THEN TargetMovedAside ELSE TargetUntouched
    /\ (Synced /\ cur.hadTarget /\ cur.heldOpen) =>
          /\ IsFile(fs, Target(cur.name))
          /\ IsFile(fs, Older(cur.name))
          /\ fs[Older(cur.name)].data = cur.prior

\* C6, amended: the target is renamed iff it exists, the probe reports it
\* locked and the rename itself succeeds; otherwise nothing is renamed (and
\* the rename is attempted only for a locked target). After a rename that
\* succeeded the original path is gone and the stale sibling holds the prior
\* bytes; after the sync the stale sibling still does, and the new file is at
\* the target path if the download completed and the file was not an archive
\* removed after its extraction.
C6_RenamedIffLockedAndRenameSucceeds ==
    /\ Prepared =>
          /\ cur.wasLocked <=> (cur.hadTarget /\ cur.heldOpen)
          /\ IF cur.hadTarget /\ cur.heldOpen /\ ~cur.renameFailed
             THEN TargetMovedAside
             ELSE TargetUntouched
    /\ (Synced /\ cur.hadTarget /\ cur.heldOpen /\ ~cur.renameFailed) =>
          /\ IsFile(fs, Older(cur.name))
          /\ fs[Older(cur.name)].data = cur.prior
          /\ (cur.downloaded /\ cur.extracted # "ok") =>
                /\ IsFile(fs, Target(cur.name))
                /\ fs[Target(cur.name)].data = cur.data

C6_Witness ==
    /\ Synced
    /\ cur.hadTarget /\ cur.heldOpen /\ ~cur.renameFailed
    /\ cur.downloaded
    /\ IsFile(fs, <<"app.exe">>) /\ fs[<<"app.exe">>].data = "exe_new"
    /\ IsFile(fs, <<"[old]app.exe">>) /\ fs[<<"[old]app.exe">>].data = "old"

\* C7: when the target is locked and the quarantine rename fails, the
\* download of that asset is aborted: no request is sent for it and the
\* target is not opened for writing; the other assets of the project are
\* still processed.
C7_RenameFailureAbortsAsset ==
    /\ cur.renameFailed => (~cur.requested /\ ~cur.opened)
    /\ (JobOver /\ job.decision = "fetch") =>
          DownloadCalls = ExpectedSelection(job.release.assets, job.files)

\* ---- extract_file, over the call recorded in ext

\* The archive the recorded call was given, as the tree it describes.
CallArchive ==
    IF IsFile(ext.before, <<ext.file_name>>)
    THEN ArchiveTree(ext.before[<<ext.file_name>>].data)
    ELSE EmptyTree

\* The archive consists of one top-level directory and what is below it.
Wrapped(A) ==
    /\ Cardinality(ListDir(A, <<>>)) = 1
    /\ \A n \in ListDir(A, <<>>) : IsDir(A, <<n>>)

Wrapper(A) == CHOOSE n \in ListDir(A, <<>>) : TRUE

\* The names the merge puts into the destination, and where each is in the
\* archive.
MergeSources(A) == IF Wrapped(A) THEN ListDir(A, <<Wrapper(A)>>) ELSE ListDir(A, <<>>)
SourcePath(A, n) == IF Wrapped(A) THEN <<Wrapper(A), n>> ELSE <<n>>

\* Entry p of tree f is the same file, or the same directory with the same
\* content, as entry q of tree g.
SameEntry(f, p, g, q) ==
    /\ p \in DOMAIN f
    /\ q \in DOMAIN g
    /\ f[p] = g[q]
    /\ Subtree(f, p) = Subtree(g, q)

\* C8: after a successful extract_file, if the archive has exactly one
\* top-level entry and it is a directory, that directory's children are in
\* the destination and the wrapping directory itself is not put there; in
\* every other case the archive's top-level entries are in the destination
\* under their own names.
C8_WrapperResolution ==
    (ext.called /\ ext.ok) =>
        LET A == CallArchive
        IN  /\ \A n \in MergeSources(A) :
                  SameEntry(ext.after, <<n>>, A, SourcePath(A, n))
            /\ (/\ Wrapped(A)
                /\ Wrapper(A) \notin MergeSources(A)
                /\ <<Wrapper(A)>> \notin DOMAIN ext.before)
               => <<Wrapper(A)>> \notin DOMAIN ext.after

\* C9: after a successful extract_file every merge-source entry is in the
\* destination with exactly the archive's content, and every entry the
\* destination had before whose name is not a merge-source name is as it was.
C9_LastWriteWinsNoClobber ==
    (ext.called /\ ext.ok) =>
        LET A == CallArchive
        IN  /\ \A n \in MergeSources(A) :
                  /\ <<n>> \in DOMAIN ext.after
                  /\ ext.after[<<n>>] = A[SourcePath(A, n)]
                  /\ Subtree(ext.after, <<n>>) = Subtree(A, SourcePath(A, n))
            /\ \A n \in ListDir(ext.before, <<>>) \ MergeSources(A) :
                  SameEntry(ext.after, <<n>>, ext.before, <<n>>)

\* C10: after extract_file has returned, on whichever path, the scratch
\* directory does not exist.
C10_ScratchRemovedOnEveryExit ==
    ext.called => TempExtract \notin DOMAIN ext.after

\* C11: no exception leaves process_projects, the loop over the release
\* records ends only when every record has had its turn, and a job that
\* fetches makes the call for every selected asset whatever failed before.
C11_FailureIsolation ==
    /\ pc # "raised"
    /\ pc = "exit" => proj > Len(config.release)
    /\ (JobOver /\ job.decision = "fetch") =>
          DownloadCalls = ExpectedSelection(job.release.assets, job.files)

\* C12: a job whose chosen release has no assets does not end like a skip:
\* it runs the download pipeline on another source, so that by its end at
\* least one download_and_extract_file call was made.
C12_EmptyReleaseFallsBack ==
    (JobOver /\ job.decision = "fetch" /\ job.release.assets = <<>>) =>
        DownloadCalls # <<>>

\* C13: at no time are two project jobs running, and no config write is made
\* while a project job of another thread is running.
C13_SingleLogicalThread ==
    /\ Cardinality(th.inJob) <= 1
    /\ ~th.overlap

\* C14: process_projects is executed at most once per invocation of main;
\* once the input has arrived the default action does not start; once the
\* default action has started, input arriving later triggers no action.
C14_ExactlyOneOutcome ==
    /\ th.runs <= 1
    /\ ~th.late
    /\ th.default_action_executed => th.acted = <<>>

\* The job at hand is between its first request and its end.
JobRunning == pc \in {"asset", "download", "postprocess"}

\* C15: within a release job the config is written only after the call for
\* the last selected asset has returned: while the job is still making its
\* calls the persisted document is as it was when the job began, and once it
\* differs, the write is the last thing the job did and every selected asset
\* has had its call.
C15_WriteAfterLastAsset ==
    job.mode # "none" =>
        /\ JobRunning =>
              /\ configFile = job.before
              /\ ~job.written
              /\ CallNames(log, "update_version_in_config") = <<>>
        /\ (configFile # job.before \/ job.written) =>
              /\ JobOver
              /\ job.queue = <<>>
              /\ log[Len(log)].op = "update_version_in_config"
              /\ Len(CallNames(log, "update_version_in_config")) = 1
              /\ DownloadCalls = ExpectedSelection(job.release.assets, job.files)
              /\ cur.name # "-" => pc # "download" /\ pc # "postprocess"

C15_Witness ==
    /\ JobOver
    /\ job.written
    /\ configFile # job.before
    /\ Len(DownloadCalls) = 2
    /\ cur.extracted = "ok"

\* The failures among the outcomes so far.
Failures == {i \in 1..Len(req.outcomes) : req.outcomes[i] # "ok"}

\* C16: send_http_request makes at most 3 attempts, waits 1, 2 and 4
\* seconds after its first, second and third failure, returns the response
\* of the first successful attempt without a further attempt, returns None
\* after the third failure, and always returns.
C16_BoundedRetry ==
    /\ [](/\ Len(req.outcomes) <= 3
          /\ \A i \in 1..Len(req.waits) : req.waits[i] = <<1, 2, 4>>[i]
          /\ Len(req.waits) <= Cardinality(Failures)
          /\ Cardinality(Failures) <= Len(req.waits) + 1
          /\ \A i \in 1..Len(req.outcomes) :
                req.outcomes[i] = "ok" => i = Len(req.outcomes) /\ req.result = "response"
          /\ req.result = "response" => req.outcomes[Len(req.outcomes)] = "ok"
          /\ req.result = "None" <=> (pc = "http_returned" /\ Cardinality(Failures) = 3)
          /\ pc = "http_returned" => req.result \in {"response", "None"})
    /\ <>(pc = "http_returned")

C16_Witness ==
    /\ pc = "http_returned"
    /\ req.result = "None"
    /\ req.waits = <<1, 2, 4>>
    /\ req.outcomes = <<"timeout", "connection_error", "http_5xx">>

\* C17: an HTTP 4xx response ends send_http_request at once: it is the last
\* attempt and no wait follows it; only timeouts, connection errors and 5xx
\* responses are followed by a further attempt.
C17_ClientErrorFailsFast ==
    \A i \in 1..Len(req.outcomes) :
        /\ req.outcomes[i] = "http_4xx" => (i = Len(req.outcomes) /\ Len(req.waits) < i)
        /\ i < Len(req.outcomes) =>
              req.outcomes[i] \in {"timeout", "connection_error", "http_5xx"}

\* C18: when download_and_extract_file has returned for a file it
\* downloaded: an archive with extraction enabled is gone from its path
\* exactly if extract_file succeeded, and after a failed extraction it is
\* still there with the downloaded bytes; any other file, and every file
\* with extraction disabled, is left in place.
C18_ArchiveDeletedIffExtracted ==
    (pc = "asset" /\ cur.name # "-" /\ cur.downloaded) =>
        IF IsArchiveName(cur.name) /\ Project.extract_flag
        THEN /\ ext.called
             /\ ext.file_name = cur.name
             /\ (Target(cur.name) \notin DOMAIN fs) <=> ext.ok
             /\ ~ext.ok => /\ IsFile(fs, Target(cur.name))
                           /\ fs[Target(cur.name)].data = cur.data
        ELSE /\ IsFile(fs, Target(cur.name))
             /\ fs[Target(cur.name)].data = cur.data
             /\ cur.extracted = "no"

C18_Witness ==
    /\ pc = "asset"
    /\ cur.name = "a.zip"
    /\ cur.downloaded
    /\ Project.extract_flag
    /\ ext.ok
    /\ <<"a.zip">> \notin DOMAIN fs
    /\ IsFile(fs, <<"a.txt">>)

\* C19: after update_version_in_config the persisted document differs from
\* the one before the job in nothing but the version of the records of the
\* job's owner and repository: github_token and the file list are the same,
\* no record is missing, and every record has all its other fields as before.
C19_VersionBumpFrame ==
    job.written =>
        /\ configFile.github_token = job.before.github_token
        /\ configFile.file = job.before.file
        /\ Len(configFile.release) = Len(job.before.release)
        /\ \A i \in 1..Len(job.before.release) :
              /\ i <= Len(configFile.release)
              /\ [configFile.release[i] EXCEPT !.version = "-"]
                    = [job.before.release[i] EXCEPT !.version = "-"]

\* C20: the scratch directory is fresh: an entry of the destination that
\* has the scratch directory's name before the call is not used as the
\* scratch directory, so that after the call it is there as it was, with all
\* its content and none of it in the destination.
C20_ScratchIsFresh ==
    (ext.called /\ TempExtract \in DOMAIN ext.before) =>
        /\ SameEntry(ext.after, TempExtract, ext.before, TempExtract)
        /\ \A n \in ListDir(ext.before, TempExtract) :
              <<n>> \in DOMAIN ext.after => <<n>> \in DOMAIN ext.before

\* input() has not returned in the input thread.
NoInputYet == th.input \in {"idle", "waiting"}

\* The program has ended: the main thread and both other threads are over.
Terminated ==
    /\ th.main = "done"
    /\ th.input = "done"
    /\ th.timer \in {"done", "cancelled"}

\* The default action has run to its end in the timer thread.
DefaultActionDone == th.default_action_executed /\ th.timer = "done"

\* C21: if no input ever arrives, the default sync-all runs after the timer
\* has fired and the program then terminates on its own.
C21_TerminatesWithoutInput ==
    ([]NoInputYet) => <>(DefaultActionDone /\ Terminated)

\* How often the number i was typed.
RECURSIVE Times(_, _)
Times(selected, i) ==
    IF selected = <<>> THEN 0
    ELSE (IF Head(selected) = i THEN 1 ELSE 0) + Times(Tail(selected), i)

\* C22: after toggle_project_status has written the release list, a record
\* whose number was typed once (an odd number of times) is passed over by
\* process_projects if it was processed before and processed if it was
\* passed over; a record typed twice, or not at all, is treated as before;
\* whether the flag was a boolean or a string.
C22_ToggleFlipsProcessing ==
    (th.toggled.wrote /\ th.toggled.project_type = "release") =>
        \A i \in 1..Len(th.toggled.before.release) :
            LET was == Truthy(th.toggled.before.release[i].enabled)
                is == Truthy(th.toggled.after.release[i].enabled)
            IN  IF Times(th.toggled.selected, i) % 2 = 1 THEN is = ~was ELSE is = was

\* C23: a job for a version without a digit never writes the config: from
\* its first request to its end the persisted document is as it was when the
\* job began, and a run over such records only leaves config.json as main
\* read it, so that the versions are still without a digit for the next run.
C23_TrackHeadNeverWrites ==
    /\ job.mode = "head" =>
          /\ configFile = job.before
          /\ ~job.written
          /\ CallNames(log, "update_version_in_config") = <<>>
    /\ (/\ pc # "main"
        /\ config.release # <<>>
        /\ \A i \in 1..Len(config.release) : ~HasDigit(config.release[i].version))
       => /\ configFile = config
          /\ \A i \in 1..Len(configFile.release) :
                ~HasDigit(configFile.release[i].version)

C23_Witness ==
    /\ pc = "exit"
    /\ proj = 3
    /\ job.mode = "head"
    /\ job.decision = "fetch"
    /\ job.release.tag_name = "v2"
    /\ cur.downloaded
    /\ configFile.release[1].version = "CI"

====
